---------------------------- MODULE Spec2Model ----------------------------
(***************************************************************************)
(* ConvGPU: cnv::Matrix<T>, cnv::check_cuda_error, cnv::kernel_conv2D and  *)
(* cnv::conv2D of src/src/conv.cuh, with the callers of src/test/main.cu.  *)
(*                                                                         *)
(* Three specifications share this module:                                 *)
(*   Spec        one host thread calling conv2D, statement by statement,   *)
(*               against a CUDA runtime whose calls may fail;              *)
(*   SpecMatrix  the special member functions of Matrix<T> over a heap;    *)
(*   SpecKernel  the threads of one kernel_conv2D launch, interleaved.     *)
(***************************************************************************)
EXTENDS Integers, Sequences, FiniteSets, TLC

(***************************************************************************)
(* 32-bit machine words.  int and float are both 4 bytes wide; a word is   *)
(* kept as the signed value of its bit pattern, -2^31 .. 2^31-1, and all   *)
(* arithmetic is done on 16-bit halves so that no intermediate leaves that *)
(* range.                                                                  *)
(***************************************************************************)
Two8  == 256
Two16 == 65536
Two23 == 8388608
MaxInt32 == 2147483647

\* the halves <<hi, lo>> of the bit pattern of the signed word a
Halves(a) == << (a \div Two16) % Two16, a % Two16 >>

\* the signed word whose bit pattern has the halves h
FromHalves(h) ==
    (IF h[1] >= 32768 THEN h[1] - Two16 ELSE h[1]) * Two16 + h[2]

\* int + int on the device: two's complement, wrapping
AddWrap(a, b) ==
    LET ha == Halves(a)
        hb == Halves(b)
        lo == ha[2] + hb[2]
        hi == ha[1] + hb[1] + (lo \div Two16)
    IN  FromHalves(<< hi % Two16, lo % Two16 >>)

\* halves of (k * word h) mod 2^32, for a byte 0 <= k < 256
ByteTimes(k, h) ==
    LET lo == k * h[2]
        hi == k * h[1] + (lo \div Two16)
    IN  << hi % Two16, lo % Two16 >>

\* halves of (word h shifted left by 8 bits) mod 2^32
Shl8(h) == << (h[1] * Two8 + (h[2] \div Two8)) % Two16, (h[2] * Two8) % Two16 >>

AddHalves(g, h) ==
    LET lo == g[2] + h[2]
        hi == g[1] + h[1] + (lo \div Two16)
    IN  << hi % Two16, lo % Two16 >>

\* int * int on the device: the low 32 bits of the product
MulWrap(a, b) ==
    LET ha == Halves(a)
        hb == Halves(b)
        b0 == ha[2] % Two8
        b1 == ha[2] \div Two8
        b2 == ha[1] % Two8
        b3 == ha[1] \div Two8
        p0 == ByteTimes(b0, hb)
        p1 == Shl8(ByteTimes(b1, hb))
        p2 == Shl8(Shl8(ByteTimes(b2, hb)))
        p3 == Shl8(Shl8(Shl8(ByteTimes(b3, hb))))
    IN  FromHalves(AddHalves(AddHalves(p0, p1), AddHalves(p2, p3)))

(***************************************************************************)
(* IEEE-754 binary32.  The model's float values are the integers of        *)
(* magnitude below 2^24, which binary32 holds exactly, so float arithmetic *)
(* on them is integer arithmetic; what matters is their bit pattern, which *)
(* is what cudaMemcpy moves and what an int* reads.                        *)
(***************************************************************************)
RECURSIVE Pow2(_)
Pow2(n) == IF n = 0 THEN 1 ELSE 2 * Pow2(n - 1)

RECURSIVE Log2(_)
Log2(m) == IF m < 2 THEN 0 ELSE 1 + Log2(m \div 2)

Abs(v) == IF v < 0 THEN -v ELSE v

\* the bit pattern (as a signed word) of the float whose value is the integer v
FloatBits(v) ==
    IF v = 0 THEN 0
    ELSE LET m   == Abs(v)
             e   == Log2(m)
             mag == (e + 127) * Two23 + (m - Pow2(e)) * Pow2(23 - e)
         IN  IF v > 0 THEN mag ELSE (mag - MaxInt32) - 1

\* the integer value of the float whose bit pattern is w; defined only on
\* patterns of integer-valued floats (every float word of the model is one)
FloatVal(w) ==
    LET mag  == IF w < 0 THEN (w + MaxInt32) + 1 ELSE w
        e    == (mag \div Two23) - 127
        frac == mag % Two23
    IN  CASE mag = 0 -> 0
          [] e >= 0 /\ e <= 23 /\ frac % Pow2(23 - e) = 0 ->
                LET m == Pow2(e) + (frac \div Pow2(23 - e))
                IN  IF w < 0 THEN -m ELSE m

\* the element types T the callers instantiate conv2D and Matrix with
ElemTypes == {"int", "float"}

\* a host value of type ty as the word cudaMemcpy copies
ToWord(ty, v) == IF ty = "float" THEN FloatBits(v) ELSE v

\* a device word read through a T* pointer
FromWord(ty, w) == IF ty = "float" THEN FloatVal(w) ELSE w

\* T + T and T * T in the accumulation of kernel_conv2D
AddT(ty, a, b) == IF ty = "float" THEN a + b ELSE AddWrap(a, b)
MulT(ty, a, b) == IF ty = "float" THEN a * b ELSE MulWrap(a, b)


(***************************************************************************)
(* Bounds of the model.                                                    *)
(***************************************************************************)
\* largest rows / cols of a generated input grid
MaxDim == 2
\* largest rows / cols of a generated kernel
MaxK == 2
\* largest element of a generated input grid
MaxVal == 2
\* conv2D calls made by the caller in one run
MaxCalls == 2
\* edge of a thread block: dim3 threadsPerBlock(16, 16) in the source.  The
\* launch geometry is written for any edge; the model instantiates a small
\* one, because the threads of a launch are interleaved one by one.
BlockDim == 2

\* largest width and height of a launch whose threads are interleaved
MaxWidth == 3
MaxHeight == 2
\* Matrix objects that may be alive at once
MaxGrids == 2
\* buffers new T[n] returns in one run
MaxAllocs == 3
\* largest outer and inner length of a generated literal
MaxRows == 3
MaxCols == 2

\* a pointer that is neither nullptr (0) nor a buffer of the heap (1, 2, ...)
Wild == 0 - 1

\* the places a Matrix object can live in
Slots == 1 .. MaxGrids

\* a place holding no object
Dead == [live |-> FALSE, data |-> 0, rows |-> 0, cols |-> 0]

\* a grid not constructed from a literal
NoLit == <<>>

(***************************************************************************)
(* Matrix<T> as a value: rows, cols and the buffer behind data, indexed    *)
(* from 0 as the code indexes it.                                          *)
(***************************************************************************)
EmptyBuf == [o \in {} |-> 0]

\* data = new T[n]: n elements, not initialised; fill is what they hold
NewBuf(n, fill) == [o \in 0 .. n - 1 |-> fill]

\* Matrix::set / Matrix::get: the offset of element (i, j)
Offset(cols, i, j) == i + j * cols

\* Matrix::get on a matrix value; callers stay inside the buffer
Get(m, i, j) == m.data[Offset(m.cols, i, j)]

\* Matrix(rows, cols) whose buffer holds d
MatrixOf(rows, cols, d) == [rows |-> rows, cols |-> cols, data |-> d]

\* Matrix(initializer_list): rows = list.size(), cols = list.begin()->size(),
\* then set(elem, i, j) for every element, outer index i, inner index j.
\* A buffer cell keeps the last value set to it (the loop runs i upwards);
\* a cell never set keeps fill; a set past the buffer is not kept in it.
ListData(L, fill) ==
    LET R == Len(L)
        C == Len(L[1])
        W(o) == {ij \in (0 .. R - 1) \X (0 .. C - 1) : Offset(C, ij[1], ij[2]) = o}
        Last(o) == CHOOSE ij \in W(o) : \A kl \in W(o) : kl[1] <= ij[1]
    IN  [o \in 0 .. R * C - 1 |->
            IF W(o) = {} THEN fill ELSE L[Last(o)[1] + 1][Last(o)[2] + 1]]

MatrixFromList(L, fill) == MatrixOf(Len(L), Len(L[1]), ListData(L, fill))

(***************************************************************************)
(* The grids and kernels of src/test/main.cu, and generated ones.          *)
(***************************************************************************)
TestInput ==
    << <<1, 1, 1, 1, 1>>,
       <<1, 4, 5, 4, 1>>,
       <<1, 5, 6, 5, 1>>,
       <<1, 3, 5, 4, 1>>,
       <<1, 1, 1, 1, 1>> >>

laplacian       == << <<0, 1, 0>>, <<1, -4, 1>>, <<0, 1, 0>> >>
filterLaplacian == << <<0, -1, 0>>, <<-1, 4, 0>>, <<0, -1, 0>> >>
filterSharpen   == << <<0, -1, 0>>, <<-1, 5, 0>>, <<0, -1, 0>> >>
filterSobelH    == << <<-1, 0, 1>>, <<-2, 0, 2>>, <<-1, 0, 1>> >>
filterSobelV    == << <<1, 2, 1>>, <<0, 0, 0>>, <<-1, -2, -1>> >>
identityKernel  == << <<1>> >>

ListKernels ==
    {laplacian, filterLaplacian, filterSharpen, filterSobelH, filterSobelV,
     identityKernel}

\* values an uninitialised cell, or a cell read past a device buffer, may hold
JunkVals == {0, 3}

\* buffers of n cells holding v at one offset and 0 elsewhere
OneHot(n, v) == {[o \in 0 .. n - 1 |-> IF o = p THEN v ELSE 0] : p \in 0 .. n - 1}

\* input grids: the test's 5x5 literal, and grids built with Matrix(rows, cols)
\* and filled: all zero, or MaxVal in one cell
Inputs(fill) ==
    {MatrixFromList(TestInput, fill)}
      \cup UNION {{MatrixOf(r, c, d) : d \in {NewBuf(r * c, 0)} \cup OneHot(r * c, MaxVal)} :
                     r \in 1 .. MaxDim, c \in 1 .. MaxDim}

\* kernels: the literals of main.cu and the identity, and kernels of every
\* extents up to MaxK with the weight 1.0 in one cell
Kernels(fill) ==
    {MatrixFromList(L, fill) : L \in ListKernels}
      \cup UNION {{MatrixOf(r, c, d) : d \in OneHot(r * c, 1)} :
                     r \in 1 .. MaxK, c \in 1 .. MaxK}

(***************************************************************************)
(* State.                                                                  *)
(***************************************************************************)
VARIABLES
    \* --- conv2D and its caller (Spec) ---
    pc,          \* where the host thread is
    T,           \* the element type conv2D is instantiated with
    input,       \* const Matrix<T>& input
    output,      \* Matrix<T>& output
    kernel,      \* const Kernel& kernel (Matrix<float>)
    junk,        \* the word a T* reads from uninitialised memory in this call
    d_input,     \* T* d_input: index into devHeap, 0 while not set
    d_output,    \* T* d_output
    d_kernel,    \* T* d_kernel
    devHeap,     \* accelerator memory: the buffers cudaMalloc has returned
    lastError,   \* the CUDA runtime's last error
    unchecked,   \* an accelerator operation has run and no check followed yet
    skipped,     \* operations of this call that no check followed
    failedOps,   \* operations of this call that failed
    calls,       \* conv2D calls made so far
    \* --- Matrix<T> objects over the host heap (SpecMatrix) ---
    grids,       \* the Matrix objects: slot -> dead, or data/rows/cols
    heap,        \* the buffers new T[n] has returned
    lits,        \* slot -> the literal a live grid was constructed from
    wildFrees,   \* delete[] calls on a pointer new never returned
    overruns,    \* writes past the end of a buffer
    \* --- the threads of one launch (SpecKernel) ---
    launch,      \* width, height, kernelWidth, kernelHeight of the launch
    tpc,         \* thread <<x, y>> -> "ready" or "done"
    writes       \* the stores made so far: thread, buffer, offset

convVars == <<pc, T, input, output, kernel, junk, d_input, d_output, d_kernel,
              devHeap, lastError, unchecked, skipped, failedOps, calls>>
matVars  == <<grids, heap, lits, wildFrees, overruns>>
thrVars  == <<launch, tpc, writes>>
vars     == <<convVars, matVars, thrVars>>

(***************************************************************************)
(* kernel_conv2D, one thread (x, y).                                       *)
(***************************************************************************)
\* the guard with > for >=: the threads at x = width and y = height go on
OutOfExtentOffByOne(x, y, width, height) == x > width \/ y > height

\* if (x >= width || y >= height) return;
OutOfExtent(x, y, width, height) == x >= width \/ y >= height

\* kernel[(i + kx) + (j + ky) * kernelHeight]
KernelIndex(i, j, kx, ky, kernelHeight) == (i + kx) + (j + ky) * kernelHeight

\* the range test with xi <= width for xi < width: one column too many
InputInRangeOffByOne(xi, yj, width, height) ==
    xi <= width /\ xi >= 0 /\ yj < height /\ yj >= 0

\* if (xi < width && xi >= 0 && yj < height && yj >= 0); a negative int
\* compared with an unsigned int is a huge unsigned, so both tests fail
InputInRange(xi, yj, width, height) ==
    xi < width /\ xi >= 0 /\ yj < height /\ yj >= 0

\* input[xi + yj * width]
InputIndex(xi, yj, width) == xi + yj * width

\* output[y * width + x]
OutputIndex(x, y, width) == y * width + x

\* a read of buf[idx] through a T*; past the buffer it yields whatever word
\* lies there
ReadWord(buf, idx, g) == IF idx \in DOMAIN buf THEN buf[idx] ELSE g

\* the n-th tap (i, j) in loop order: i outer, j inner
Tap(n, kx, ky) ==
    << ((n - 1) \div (2 * ky + 1)) - kx, ((n - 1) % (2 * ky + 1)) - ky >>

\* T value = 0; if (in range) value = input[...];
TapValue(ty, inBuf, x, y, i, j, width, height, g) ==
    IF InputInRange(x + i, y + j, width, height)
    THEN FromWord(ty, ReadWord(inBuf, InputIndex(x + i, y + j, width), g))
    ELSE 0

\* sum += value * kernel[...], over the first n taps
RECURSIVE Accumulate(_, _, _, _, _, _, _, _, _, _, _)
Accumulate(n, ty, inBuf, kBuf, x, y, width, height, kernelWidth, kernelHeight, g) ==
    IF n = 0 THEN 0
    ELSE LET kx == kernelWidth \div 2
             ky == kernelHeight \div 2
             t  == Tap(n, kx, ky)
             w  == FromWord(ty, ReadWord(kBuf,
                       KernelIndex(t[1], t[2], kx, ky, kernelHeight), g))
         IN  AddT(ty,
                  Accumulate(n - 1, ty, inBuf, kBuf, x, y, width, height,
                             kernelWidth, kernelHeight, g),
                  MulT(ty, TapValue(ty, inBuf, x, y, t[1], t[2], width, height, g), w))

\* the sum thread (x, y) stores, as the word it writes
ThreadSum(ty, inBuf, kBuf, x, y, width, height, kernelWidth, kernelHeight, g) ==
    LET kx == kernelWidth \div 2
        ky == kernelHeight \div 2
    IN  ToWord(ty, Accumulate((2 * kx + 1) * (2 * ky + 1), ty, inBuf, kBuf, x, y,
                              width, height, kernelWidth, kernelHeight, g))

(***************************************************************************)
(* The launch of conv2D.                                                   *)
(***************************************************************************)
\* blocksPerGrid: (n + threadsPerBlock - 1) / threadsPerBlock
BlocksPerGrid(n) == (n + BlockDim - 1) \div BlockDim

\* the threads of the launch, by blockIdx * blockDim + threadIdx
LaunchedThreads(width, height) ==
    (0 .. BlocksPerGrid(width) * BlockDim - 1)
        \X (0 .. BlocksPerGrid(height) * BlockDim - 1)

\* d_output after kernel_conv2D<<<...>>> and cudaDeviceSynchronize()
RunKernel(ty, inBuf, outBuf, kBuf, width, height, kernelWidth, kernelHeight, g) ==
    LET writers(o) ==
            {t \in LaunchedThreads(width, height) :
                /\ ~OutOfExtent(t[1], t[2], width, height)
                /\ OutputIndex(t[1], t[2], width) = o}
    IN  [o \in DOMAIN outBuf |->
            IF writers(o) = {} THEN outBuf[o]
            ELSE LET t == CHOOSE t \in writers(o) : TRUE
                 IN  ThreadSum(ty, inBuf, kBuf, t[1], t[2], width, height,
                               kernelWidth, kernelHeight, g)]


(***************************************************************************)
(* The CUDA runtime as conv2D uses it.  A call may fail; a failed call has *)
(* no effect and sets the last error, which stays set until                *)
(* cudaGetLastError() reads and clears it.                                 *)
(***************************************************************************)
\* a buffer cudaMalloc returns: n words, not initialised
DevBuf(n, g) == [live |-> TRUE, frees |-> 0, words |-> NewBuf(n, g)]

\* cudaFree(p)
CudaFree(h, p) ==
    IF p \in DOMAIN h
    THEN [h EXCEPT ![p] = [live |-> FALSE, frees |-> @.frees + 1, words |-> EmptyBuf]]
    ELSE h

\* the frees with d_output named twice and d_kernel never
FreedPointersTwice == <<d_input, d_output, d_output>>

\* the pointers conv2D frees, in order
FreedPointers == <<d_input, d_output, d_kernel>>

\* an accelerator operation immediately followed by check_cuda_error(message):
\* cudaGetLastError() returns and clears the last error; on an error the
\* message is written and exit(-1) ends the process
Checked(ok, message, next) ==
    LET error == IF ok THEN lastError ELSE "cudaError"
    IN  /\ pc' = IF error = "cudaSuccess" THEN next ELSE "exited"
        /\ lastError' = "cudaSuccess"
        /\ failedOps' = IF ok THEN failedOps ELSE failedOps \cup {message}
        /\ skipped' = IF unchecked THEN skipped + 1 ELSE skipped
        /\ unchecked' = FALSE

\* an accelerator operation that no check_cuda_error follows
NotChecked(ok, message, next) ==
    /\ pc' = next
    /\ lastError' = IF ok THEN lastError ELSE "cudaError"
    /\ failedOps' = IF ok THEN failedOps ELSE failedOps \cup {message}
    /\ skipped' = IF unchecked THEN skipped + 1 ELSE skipped
    /\ unchecked' = TRUE

(***************************************************************************)
(* The caller: testConvolution / test / applyFilter build an input, a      *)
(* kernel and an output of the input's extents, and call conv2D.           *)
(***************************************************************************)
\* what every call of conv2D starts from
Enter ==
    /\ calls' = calls + 1
    /\ pc' = "malloc_input"
    /\ d_input' = 0 /\ d_output' = 0 /\ d_kernel' = 0
    /\ unchecked' = FALSE /\ skipped' = 0 /\ failedOps' = {}
    /\ UNCHANGED <<devHeap, lastError, matVars, thrVars>>

\* the first call: any element type, input and kernel
Call ==
    /\ pc = "caller"
    /\ calls < MaxCalls
    /\ \E ty \in ElemTypes, g \in JunkVals :
         \E in \in Inputs(g), k \in Kernels(g) :
            /\ T' = ty
            /\ junk' = ToWord(ty, g)
            /\ input' = in
            /\ kernel' = k
            /\ output' = MatrixOf(in.rows, in.cols, NewBuf(in.rows * in.cols, g))
    /\ Enter

\* a further call with the same input and kernel and a fresh output, as
\* applyFilter calls conv2D once per channel
CallAgain ==
    /\ pc = "returned"
    /\ calls < MaxCalls
    /\ output' = MatrixOf(input.rows, input.cols,
                          NewBuf(input.rows * input.cols, FromWord(T, junk)))
    /\ UNCHANGED <<T, junk, input, kernel>>
    /\ Enter

(***************************************************************************)
(* conv2D, conv.cuh:298-341.  size and sizeKernel are counted in 4-byte    *)
(* words: sizeof(T) = sizeof(int) = sizeof(float) = 4.                     *)
(***************************************************************************)
width        == input.cols
height       == input.rows
kernelWidth  == kernel.cols
kernelHeight == kernel.rows
size         == width * height
sizeKernel   == kernelWidth * kernelHeight

\* cudaMalloc((void **)&d_input, size); check_cuda_error("cudaMalloc d_input");
MallocInput ==
    /\ pc = "malloc_input"
    /\ \E ok \in BOOLEAN :
         /\ devHeap' = IF ok THEN Append(devHeap, DevBuf(size, junk)) ELSE devHeap
         /\ d_input' = IF ok THEN Len(devHeap) + 1 ELSE d_input
         /\ Checked(ok, "cudaMalloc d_input", "malloc_output")
    /\ UNCHANGED <<T, input, output, kernel, junk, d_output, d_kernel, calls,
                   matVars, thrVars>>

\* cudaMalloc((void **)&d_output, size); check_cuda_error("cudaMalloc d_input");
MallocOutput ==
    /\ pc = "malloc_output"
    /\ \E ok \in BOOLEAN :
         /\ devHeap' = IF ok THEN Append(devHeap, DevBuf(size, junk)) ELSE devHeap
         /\ d_output' = IF ok THEN Len(devHeap) + 1 ELSE d_output
         /\ Checked(ok, "cudaMalloc d_output", "malloc_kernel")
    /\ UNCHANGED <<T, input, output, kernel, junk, d_input, d_kernel, calls,
                   matVars, thrVars>>

\* cudaMalloc((void **)&d_kernel, sizeKernel); check_cuda_error("cudaMalloc d_kernel");
MallocKernel ==
    /\ pc = "malloc_kernel"
    /\ \E ok \in BOOLEAN :
         /\ devHeap' = IF ok THEN Append(devHeap, DevBuf(sizeKernel, junk)) ELSE devHeap
         /\ d_kernel' = IF ok THEN Len(devHeap) + 1 ELSE d_kernel
         /\ Checked(ok, "cudaMalloc d_kernel", "copy_input")
    /\ UNCHANGED <<T, input, output, kernel, junk, d_input, d_output, calls,
                   matVars, thrVars>>

\* cudaMemcpy(d_input, input.data, size, cudaMemcpyHostToDevice); check_cuda_error(...)
CopyInput ==
    /\ pc = "copy_input"
    /\ \E ok \in BOOLEAN :
         /\ devHeap' =
              IF ok
              THEN [devHeap EXCEPT ![d_input].words =
                        [o \in DOMAIN @ |-> IF o < size THEN ToWord(T, input.data[o]) ELSE @[o]]]
              ELSE devHeap
         /\ Checked(ok, "cudaMemcpy d_input", "copy_kernel")
    /\ UNCHANGED <<T, input, output, kernel, junk, d_input, d_output, d_kernel,
                   calls, matVars, thrVars>>

\* cudaMemcpy(d_kernel, kernel.data, sizeKernel, cudaMemcpyHostToDevice); check_cuda_error(...)
\* kernel.data is a float*: the words copied are the floats' bit patterns
CopyKernel ==
    /\ pc = "copy_kernel"
    /\ \E ok \in BOOLEAN :
         /\ devHeap' =
              IF ok
              THEN [devHeap EXCEPT ![d_kernel].words =
                        [o \in DOMAIN @ |->
                            IF o < sizeKernel THEN ToWord("float", kernel.data[o]) ELSE @[o]]]
              ELSE devHeap
         /\ Checked(ok, "cudaMemcpy d_kernel", "launch")
    /\ UNCHANGED <<T, input, output, kernel, junk, d_input, d_output, d_kernel,
                   calls, matVars, thrVars>>

\* kernel_conv2D<<<blocksPerGrid, threadsPerBlock>>>(d_input, d_output, d_kernel, ...);
\* cudaDeviceSynchronize();      -- d_kernel is a T*: the kernel reads it as T
Launch ==
    /\ pc = "launch"
    /\ \E ok \in BOOLEAN :
         /\ devHeap' =
              IF ok
              THEN [devHeap EXCEPT ![d_output].words =
                        RunKernel(T, devHeap[d_input].words, @, devHeap[d_kernel].words,
                                  width, height, kernelWidth, kernelHeight, junk)]
              ELSE devHeap
         /\ NotChecked(ok, "kernel_conv2D", "copy_output")
    /\ UNCHANGED <<T, input, output, kernel, junk, d_input, d_output, d_kernel,
                   calls, matVars, thrVars>>

\* cudaMemcpy(output.data, d_output, size, cudaMemcpyDeviceToHost);
CopyOutput ==
    /\ pc = "copy_output"
    /\ \E ok \in BOOLEAN :
         /\ output' =
              IF ok
              THEN [output EXCEPT !.data =
                        [o \in DOMAIN @ |->
                            IF o < size THEN FromWord(T, devHeap[d_output].words[o]) ELSE @[o]]]
              ELSE output
         /\ NotChecked(ok, "cudaMemcpy output", "free")
    /\ UNCHANGED <<T, input, kernel, junk, d_input, d_output, d_kernel, devHeap,
                   calls, matVars, thrVars>>

\* cudaFree(d_input); cudaFree(d_output); cudaFree(d_kernel); and the return
FreeAndReturn ==
    /\ pc = "free"
    /\ devHeap' = CudaFree(CudaFree(CudaFree(devHeap, FreedPointers[1]),
                                    FreedPointers[2]), FreedPointers[3])
    /\ pc' = "returned"
    /\ skipped' = IF unchecked THEN skipped + 1 ELSE skipped
    /\ unchecked' = FALSE
    /\ UNCHANGED <<T, input, output, kernel, junk, d_input, d_output, d_kernel,
                   lastError, failedOps, calls, matVars, thrVars>>

ConvInit ==
    /\ pc = "caller"
    /\ T = "int"
    /\ input = MatrixOf(0, 0, EmptyBuf)
    /\ output = MatrixOf(0, 0, EmptyBuf)
    /\ kernel = MatrixOf(0, 0, EmptyBuf)
    /\ junk = 0
    /\ d_input = 0 /\ d_output = 0 /\ d_kernel = 0
    /\ devHeap = <<>>
    /\ lastError = "cudaSuccess"
    /\ unchecked = FALSE
    /\ skipped = 0
    /\ failedOps = {}
    /\ calls = 0

MatInit ==
    /\ grids = [s \in Slots |-> Dead]
    /\ heap = <<>>
    /\ lits = [s \in Slots |-> NoLit]
    /\ wildFrees = 0
    /\ overruns = 0

ThrInit ==
    /\ launch = <<>>
    /\ tpc = <<>>
    /\ writes = {}

Init == ConvInit /\ MatInit /\ ThrInit

Next ==
    \/ Call
    \/ CallAgain
    \/ MallocInput
    \/ MallocOutput
    \/ MallocKernel
    \/ CopyInput
    \/ CopyKernel
    \/ Launch
    \/ CopyOutput
    \/ FreeAndReturn

Spec == Init /\ [][Next]_vars


(***************************************************************************)
(* Claims about conv2D, checked under Spec.  A claim about the result of   *)
(* conv2D is about a call that returned and in which no accelerator        *)
(* operation failed.                                                       *)
(***************************************************************************)
Returned == pc = "returned" /\ failedOps = {}

InExtent(m) == (0 .. m.rows - 1) \X (0 .. m.cols - 1)

\* the value of m at (i, j), 0 where (i, j) is outside the extents
Padded(m, i, j) == IF <<i, j>> \in InExtent(m) THEN Get(m, i, j) ELSE 0

\* the neighbours of (i, j) that exist, minus 4 times the cell
DiscreteLaplacian(m, i, j) ==
    Padded(m, i - 1, j) + Padded(m, i + 1, j) + Padded(m, i, j - 1)
        + Padded(m, i, j + 1) - 4 * Get(m, i, j)

IsTestCall ==
    /\ T = "int"
    /\ input = MatrixFromList(TestInput, 0)
    /\ kernel = MatrixFromList(laplacian, 0)

\* C1: conv2D with T = int on the 5x5 input and the Laplacian kernel of
\* testConvolution leaves in every output.get(i, j) the discrete Laplacian of
\* the input at (i, j), with missing neighbours counted as 0; output.get(0, 0)
\* is -2.
C1_TestConvolutionIsLaplacian ==
    (Returned /\ IsTestCall) =>
        /\ \A ij \in InExtent(input) :
              Get(output, ij[1], ij[2]) = DiscreteLaplacian(input, ij[1], ij[2])
        /\ Get(output, 0, 0) = -2

IsIdentityKernel == kernel.rows = 1 /\ kernel.cols = 1 /\ kernel.data[0] = 1

\* the in-extent pairs whose offset lies in the buffer, where get is defined
Readable(m) == {ij \in InExtent(m) : Offset(m.cols, ij[1], ij[2]) \in DOMAIN m.data}

\* C2: for every element type, int included, and every input, conv2D with the
\* 1x1 kernel of weight 1.0 leaves output.get(i, j) = input.get(i, j) for every
\* in-extent (i, j).
C2_IdentityKernelCopiesInput ==
    (Returned /\ IsIdentityKernel) =>
        \A ij \in Readable(input) :
            Get(output, ij[1], ij[2]) = Get(input, ij[1], ij[2])

\* f(x, y): the input at column x, row y, 0 outside its extents
ImageAt(m, x, y) ==
    IF x >= 0 /\ x < m.cols /\ y >= 0 /\ y < m.rows
    THEN m.data[x + y * m.cols] ELSE 0

\* sum over i in [-a, a], j in [-b, b] of w(i, j) * f(x - i, y - j), with
\* w(i, j) the weight at offset (i, j) from the centre (a, b) of the kernel
RECURSIVE ConvolutionSum(_, _, _, _, _)
ConvolutionSum(n, m, k, x, y) ==
    IF n = 0 THEN 0
    ELSE LET a == k.rows \div 2
             b == k.cols \div 2
             t == Tap(n, a, b)
         IN  ConvolutionSum(n - 1, m, k, x, y)
               + Get(k, t[1] + a, t[2] + b) * ImageAt(m, x - t[1], y - t[2])

Convolution(m, k, x, y) == ConvolutionSum(k.rows * k.cols, m, k, x, y)

\* C3: for every integer input and every 3x3 kernel, symmetric or not, conv2D
\* computes g(x, y) = sum of w(i, j) * f(x - i, y - j), f being 0 outside the
\* input.
C3_ComputesConvolution ==
    (Returned /\ T = "int" /\ kernel.rows = 3 /\ kernel.cols = 3) =>
        \A x \in 0 .. input.cols - 1, y \in 0 .. input.rows - 1 :
            output.data[x + y * input.cols] = Convolution(input, kernel, x, y)

\* C3 read for T = float, where the weights are read as the floats they are:
\* what is left of the claim once the element type matches the kernel's.
C3_ComputesConvolutionFloat ==
    (Returned /\ T = "float" /\ kernel.rows = 3 /\ kernel.cols = 3) =>
        \A x \in 0 .. input.cols - 1, y \in 0 .. input.rows - 1 :
            output.data[x + y * input.cols] = Convolution(input, kernel, x, y)

\* C4: every accelerator operation of conv2D is followed by check_cuda_error
\* before the next one starts; so conv2D never returns to its caller after an
\* operation failed.
C4_EveryOperationChecked ==
    /\ skipped = 0
    /\ pc = "returned" => failedOps = {}

\* C5: whenever a conv2D call returns, the three accelerator buffers it
\* allocated have each been freed exactly once, and no accelerator buffer
\* allocated by any call is still allocated.
C5_BuffersFreedOnReturn ==
    pc = "returned" =>
        /\ Cardinality({d_input, d_output, d_kernel}) = 3
        /\ \A p \in {d_input, d_output, d_kernel} :
              p \in DOMAIN devHeap /\ ~devHeap[p].live /\ devHeap[p].frees = 1
        /\ \A b \in DOMAIN devHeap : ~devHeap[b].live /\ devHeap[b].frees = 1

\* C5's case: a second call has returned, six buffers allocated and freed
C5_Witness == pc = "returned" /\ calls = 2 /\ Len(devHeap) = 6

AllZero(buf) == \A o \in DOMAIN buf : buf[o] = 0

\* C6: for every all-zero integer input, every kernel of any extents and
\* weights, and an output of the input's extents, conv2D leaves every element
\* of the output buffer equal to 0.
C6_ZeroInputZeroOutput ==
    (Returned /\ T = "int" /\ AllZero(input.data)) => AllZero(output.data)

\* C6's case: a zero input and a non-square kernel with a non-zero weight,
\* read past its buffer, over an output that held non-zero values
C6_Witness ==
    /\ Returned /\ T = "int" /\ AllZero(input.data)
    /\ kernel.rows # kernel.cols /\ ~AllZero(kernel.data)
    /\ junk # 0
    /\ \E i \in -(kernelWidth \div 2) .. (kernelWidth \div 2),
          j \in -(kernelHeight \div 2) .. (kernelHeight \div 2) :
          KernelIndex(i, j, kernelWidth \div 2, kernelHeight \div 2, kernelHeight)
              \notin DOMAIN kernel.data


(***************************************************************************)
(* Matrix<T> objects over the host heap (SpecMatrix).                      *)
(*                                                                         *)
(* A pointer is 0 (nullptr), the index of a buffer new T[n] returned, or   *)
(* Wild, an address new never returned.  A write past a buffer, a          *)
(* delete[] of a freed buffer and a delete[] of a wild pointer corrupt the *)
(* heap: the model records them and follows the program no further.        *)
(***************************************************************************)
\* the literal of test() in conv.cuh: 4 inner sequences of length 5
TestInput4x5 ==
    << <<1, 1, 1, 1, 1>>,
       <<1, 5, 6, 5, 1>>,
       <<1, 5, 6, 5, 1>>,
       <<1, 1, 1, 1, 1>> >>

\* the R x C literal whose elements are all different
GenList(R, C) == [i \in 1 .. R |-> [j \in 1 .. C |-> (i - 1) * C + j]]

Literals ==
    {TestInput4x5, laplacian}
        \cup {GenList(R, C) : R \in 1 .. MaxRows, C \in 1 .. MaxCols}

\* the set(elem, i, j) calls of Matrix(initializer_list) that fall past the buffer
ListOverruns(L) ==
    Cardinality({ij \in (0 .. Len(L) - 1) \X (0 .. Len(L[1]) - 1) :
                    Offset(Len(L[1]), ij[1], ij[2]) >= Len(L) * Len(L[1])})

HeapOk == wildFrees = 0 /\ overruns = 0 /\ \A b \in DOMAIN heap : heap[b].frees <= 1

IsLiveBuf(p) == p \in DOMAIN heap /\ heap[p].live

\* new T[n]
Alloc(h, cells) == Append(h, [live |-> TRUE, frees |-> 0, cells |-> cells])

\* delete[] p on heap h: nothing for nullptr; a buffer is released and the
\* release counted, also when it was released before
Delete(h, p) ==
    IF p \in DOMAIN h
    THEN [h EXCEPT ![p] = [live |-> FALSE, frees |-> @.frees + 1, cells |-> EmptyBuf]]
    ELSE h

\* delete[] p of a pointer that is neither nullptr nor a buffer of the heap
IsWildFree(p) == p # 0 /\ p \notin DOMAIN heap

\* std::copy(matrix.data, matrix.data + n, data): the n cells read from p;
\* where p does not point to n live cells the read has no defined value, g
CopyOf(h, p, n, g) ==
    [o \in 0 .. n - 1 |->
        IF p \in DOMAIN h /\ h[p].live /\ o \in DOMAIN h[p].cells
        THEN h[p].cells[o] ELSE g]

\* Matrix(unsigned int _rows, unsigned int _cols)
Construct(s) ==
    /\ HeapOk /\ ~grids[s].live /\ Len(heap) < MaxAllocs
    /\ \E r \in 1 .. MaxRows, c \in 1 .. MaxCols, g \in JunkVals :
         /\ heap' = Alloc(heap, NewBuf(r * c, g))
         /\ grids' = [grids EXCEPT ![s] =
                         [live |-> TRUE, data |-> Len(heap) + 1, rows |-> r, cols |-> c]]
    /\ lits' = [lits EXCEPT ![s] = NoLit]
    /\ UNCHANGED <<wildFrees, overruns, convVars, thrVars>>

\* Matrix() = default: no member is initialised.  Matrix<T> m{} zeroes them;
\* Matrix<T> m; leaves whatever the storage held
DefaultConstruct(s) ==
    /\ HeapOk /\ ~grids[s].live
    /\ \E p \in {0, Wild} \cup DOMAIN heap, r \in {0, 1}, c \in {0, 1} :
         grids' = [grids EXCEPT ![s] = [live |-> TRUE, data |-> p, rows |-> r, cols |-> c]]
    /\ lits' = [lits EXCEPT ![s] = NoLit]
    /\ UNCHANGED <<heap, wildFrees, overruns, convVars, thrVars>>

\* Matrix() = default reached by value-initialisation, Matrix<T> m{} or
\* Matrix<T>(): every member is zeroed
ValueConstruct(s) ==
    /\ HeapOk /\ ~grids[s].live
    /\ grids' = [grids EXCEPT ![s] = [live |-> TRUE, data |-> 0, rows |-> 0, cols |-> 0]]
    /\ lits' = [lits EXCEPT ![s] = NoLit]
    /\ UNCHANGED <<heap, wildFrees, overruns, convVars, thrVars>>

\* Matrix(const std::initializer_list<std::initializer_list<T>>& list)
ListConstruct(s) ==
    /\ HeapOk /\ ~grids[s].live /\ Len(heap) < MaxAllocs
    /\ \E L \in Literals, g \in JunkVals :
         /\ heap' = Alloc(heap, ListData(L, g))
         /\ grids' = [grids EXCEPT ![s] =
                         [live |-> TRUE, data |-> Len(heap) + 1,
                          rows |-> Len(L), cols |-> Len(L[1])]]
         /\ lits' = [lits EXCEPT ![s] = L]
         /\ overruns' = overruns + ListOverruns(L)
    /\ UNCHANGED <<wildFrees, convVars, thrVars>>

\* Matrix(const Matrix& matrix)
CopyConstruct(s, t) ==
    /\ HeapOk /\ ~grids[s].live /\ grids[t].live /\ Len(heap) < MaxAllocs
    /\ \E g \in JunkVals :
         heap' = Alloc(heap, CopyOf(heap, grids[t].data, grids[t].rows * grids[t].cols, g))
    /\ grids' = [grids EXCEPT ![s] =
                    [live |-> TRUE, data |-> Len(heap) + 1,
                     rows |-> grids[t].rows, cols |-> grids[t].cols]]
    /\ lits' = [lits EXCEPT ![s] = NoLit]
    /\ UNCHANGED <<wildFrees, overruns, convVars, thrVars>>

\* Matrix(Matrix&& matrix) noexcept
MoveConstruct(s, t) ==
    /\ HeapOk /\ ~grids[s].live /\ grids[t].live
    /\ grids' = [grids EXCEPT
                    ![s] = [live |-> TRUE, data |-> grids[t].data,
                            rows |-> grids[t].rows, cols |-> grids[t].cols],
                    ![t] = [@ EXCEPT !.data = 0]]
    /\ lits' = [lits EXCEPT ![s] = NoLit, ![t] = NoLit]
    /\ UNCHANGED <<heap, wildFrees, overruns, convVars, thrVars>>

\* ~Matrix()
Destroy(s) ==
    /\ HeapOk /\ grids[s].live
    /\ heap' = Delete(heap, grids[s].data)
    /\ wildFrees' = IF IsWildFree(grids[s].data) THEN wildFrees + 1 ELSE wildFrees
    /\ grids' = [grids EXCEPT ![s] = Dead]
    /\ lits' = [lits EXCEPT ![s] = NoLit]
    /\ UNCHANGED <<overruns, convVars, thrVars>>

\* Matrix& operator=(const Matrix& matrix); s = t, s = s included
CopyAssign(s, t) ==
    /\ HeapOk /\ grids[s].live /\ grids[t].live
    /\ \/ /\ s = t
          /\ UNCHANGED <<grids, heap, lits, wildFrees>>
       \/ /\ s # t
          /\ Len(heap) < MaxAllocs
          /\ \E g \in JunkVals :
               heap' = Alloc(Delete(heap, grids[s].data),
                             CopyOf(Delete(heap, grids[s].data), grids[t].data,
                                    grids[t].rows * grids[t].cols, g))
          /\ wildFrees' = IF IsWildFree(grids[s].data) THEN wildFrees + 1 ELSE wildFrees
          /\ grids' = [grids EXCEPT ![s] =
                          [live |-> TRUE, data |-> Len(heap) + 1,
                           rows |-> grids[t].rows, cols |-> grids[t].cols]]
          /\ lits' = [lits EXCEPT ![s] = NoLit]
    /\ UNCHANGED <<overruns, convVars, thrVars>>

\* Matrix& operator=(Matrix&& matrix) noexcept; s = std::move(t), s = std::move(s) included
MoveAssign(s, t) ==
    /\ HeapOk /\ grids[s].live /\ grids[t].live
    /\ \/ /\ s = t
          /\ UNCHANGED <<grids, heap, lits, wildFrees>>
       \/ /\ s # t
          /\ heap' = Delete(heap, grids[s].data)
          /\ wildFrees' = IF IsWildFree(grids[s].data) THEN wildFrees + 1 ELSE wildFrees
          /\ grids' = [grids EXCEPT
                          ![s] = [live |-> TRUE, data |-> grids[t].data,
                                  rows |-> grids[t].rows, cols |-> grids[t].cols],
                          ![t] = [@ EXCEPT !.data = 0]]
          /\ lits' = [lits EXCEPT ![s] = NoLit, ![t] = NoLit]
    /\ UNCHANGED <<overruns, convVars, thrVars>>

MatNext ==
    \E s \in Slots :
        \/ Construct(s)
        \/ DefaultConstruct(s)
        \/ ListConstruct(s)
        \/ Destroy(s)
        \/ \E t \in Slots :
              \/ CopyConstruct(s, t)
              \/ MoveConstruct(s, t)
              \/ CopyAssign(s, t)
              \/ MoveAssign(s, t)

SpecMatrix == Init /\ [][MatNext]_vars

\* the same objects in a program that only ever value-initialises: what the
\* special member functions do when no member starts out indeterminate
MatNextZeroed ==
    \E s \in Slots :
        \/ Construct(s)
        \/ ValueConstruct(s)
        \/ ListConstruct(s)
        \/ Destroy(s)
        \/ \E t \in Slots :
              \/ CopyConstruct(s, t)
              \/ MoveConstruct(s, t)
              \/ CopyAssign(s, t)
              \/ MoveAssign(s, t)

SpecMatrixZeroed == Init /\ [][MatNextZeroed]_vars


(***************************************************************************)
(* Claims about Matrix<T>, checked under SpecMatrix.                       *)
(***************************************************************************)
LiveGrids == {s \in Slots : grids[s].live}

\* the cells behind the data pointer of grid s; none where it points to no
\* live buffer
CellsOf(s) == IF IsLiveBuf(grids[s].data) THEN heap[grids[s].data].cells ELSE EmptyBuf

\* C7: the grid constructed from a rectangular literal L of R >= 1 inner
\* sequences of length C >= 1, R # C included, has rows = R and cols = C, and
\* get(i, j) returns L[i][j] for every i < R and j < C.
C7_LiteralRoundTrip ==
    \A s \in LiveGrids :
        lits[s] # NoLit =>
            LET L == lits[s]
            IN  /\ grids[s].rows = Len(L)
                /\ grids[s].cols = Len(L[1])
                /\ \A i \in 0 .. Len(L) - 1, j \in 0 .. Len(L[1]) - 1 :
                      /\ Offset(grids[s].cols, i, j) \in DOMAIN CellsOf(s)
                      /\ CellsOf(s)[Offset(grids[s].cols, i, j)] = L[i + 1][j + 1]

\* C7 where every get stays inside the buffer: get(i, j) returns L[i][j] for
\* every in-extent (i, j) whose offset the buffer holds.
C7_LiteralRoundTripInBuffer ==
    \A s \in LiveGrids :
        lits[s] # NoLit =>
            LET L == lits[s]
            IN  \A i \in 0 .. Len(L) - 1, j \in 0 .. Len(L[1]) - 1 :
                    Offset(grids[s].cols, i, j) \in DOMAIN CellsOf(s) =>
                        CellsOf(s)[Offset(grids[s].cols, i, j)] = L[i + 1][j + 1]

\* C8: every live grid's buffer holds exactly rows * cols elements, and a grid
\* whose buffer is null has rows = cols = 0; so a default-constructed and a
\* moved-from grid have a null buffer and rows * cols = 0.
C8_BufferMatchesExtents ==
    \A s \in LiveGrids :
        /\ grids[s].data # 0 =>
              /\ IsLiveBuf(grids[s].data)
              /\ Cardinality(DOMAIN CellsOf(s)) = grids[s].rows * grids[s].cols
        /\ grids[s].data = 0 => (grids[s].rows = 0 /\ grids[s].cols = 0)

\* C9: every allocated buffer is referenced by exactly one live grid until it
\* is released; no buffer is released twice, no pointer that was never
\* allocated is released, and no buffer is still allocated once every grid has
\* been destroyed.
C9_ExclusiveOwnership ==
    /\ \A b \in DOMAIN heap :
          /\ heap[b].live => Cardinality({s \in LiveGrids : grids[s].data = b}) = 1
          /\ heap[b].frees <= 1
    /\ wildFrees = 0
    /\ LiveGrids = {} => \A b \in DOMAIN heap : ~heap[b].live


(***************************************************************************)
(* The threads of one kernel_conv2D launch (SpecKernel).  A thread runs    *)
(* its body in one step; the threads run in any order.  What a thread      *)
(* stores is recorded.  What it reads follows from its coordinates, the    *)
(* extents of the input and the extents of the kernel; the kernel's        *)
(* extents change no store, so the launch keeps the input's extents only   *)
(* and the reads are stated for every kernel extent up to MaxK.            *)
(***************************************************************************)
NotLaunched == <<>>

\* the cells thread (x, y) reads: input[...] for the taps in range and
\* kernel[...] for every tap; none when the guard returns
ThreadReads(x, y, w, h, kw, kh) ==
    IF OutOfExtent(x, y, w, h) THEN {}
    ELSE LET kx == kw \div 2
             ky == kh \div 2
             taps == {Tap(n, kx, ky) : n \in 1 .. (2 * kx + 1) * (2 * ky + 1)}
         IN  {<<"input", InputIndex(x + t[1], y + t[2], w)>> :
                  t \in {u \in taps : InputInRange(x + u[1], y + u[2], w, h)}}
               \cup {<<"kernel", KernelIndex(t[1], t[2], kx, ky, kh)>> : t \in taps}

\* the cells thread (x, y) stores to: output[y * width + x]; none when the
\* guard returns
ThreadWrites(x, y, w, h) ==
    IF OutOfExtent(x, y, w, h) THEN {}
    ELSE {<<"output", OutputIndex(x, y, w)>>}

\* kernel_conv2D<<<blocksPerGrid, threadsPerBlock>>>(...): the threads exist
StartLaunch ==
    /\ launch = NotLaunched
    /\ \E w \in 1 .. MaxWidth, h \in 1 .. MaxHeight :
         /\ launch' = [width |-> w, height |-> h]
         /\ tpc' = [t \in LaunchedThreads(w, h) |-> "ready"]
    /\ writes' = {}
    /\ UNCHANGED <<convVars, matVars>>

\* one thread of the launch runs kernel_conv2D
ThreadRun(t) ==
    /\ launch # NotLaunched
    /\ t \in DOMAIN tpc
    /\ tpc[t] = "ready"
    /\ tpc' = [tpc EXCEPT ![t] = "done"]
    /\ writes' = writes \cup
                    {[thread |-> t, buf |-> c[1], idx |-> c[2]] :
                         c \in ThreadWrites(t[1], t[2], launch.width, launch.height)}
    /\ UNCHANGED <<launch, convVars, matVars>>

ThrNext ==
    \/ StartLaunch
    \/ \E t \in DOMAIN tpc : ThreadRun(t)

SpecKernel == Init /\ [][ThrNext]_vars

(***************************************************************************)
(* Claims about the launch, checked under SpecKernel.                      *)
(***************************************************************************)
DoneThreads == {t \in DOMAIN tpc : tpc[t] = "done"}

AllDone == launch # NotLaunched /\ DoneThreads = DOMAIN tpc

\* the stores made to output[o]
WritesTo(o) == {wr \in writes : wr.buf = "output" /\ wr.idx = o}

\* C10: with blocks of BlockDim x BlockDim threads and a grid of
\* ceil(width / BlockDim) x ceil(height / BlockDim) blocks, in whatever order
\* the threads run, each output offset in [0, width * height) is written at
\* most once and, when all threads are done, exactly once, by the thread whose
\* (x, y) has offset = x + y * width; a thread with x >= width or y >= height
\* reads and writes no buffer; no thread writes the input or kernel buffer.
C10_EachOffsetWrittenOnce ==
    launch # NotLaunched =>
        /\ \A o \in 0 .. launch.width * launch.height - 1 :
              /\ Cardinality(WritesTo(o)) <= 1
              /\ AllDone => Cardinality(WritesTo(o)) = 1
              /\ \A wr \in WritesTo(o) :
                    /\ wr.thread[1] < launch.width /\ wr.thread[2] < launch.height
                    /\ o = wr.thread[1] + wr.thread[2] * launch.width
        /\ \A wr \in writes :
              wr.buf = "output" /\ wr.idx \in 0 .. launch.width * launch.height - 1
        /\ \A t \in DoneThreads :
              (t[1] >= launch.width \/ t[2] >= launch.height) =>
                  /\ ~\E wr \in writes : wr.thread = t
                  /\ \A kw \in 1 .. MaxK, kh \in 1 .. MaxK :
                        ThreadReads(t[1], t[2], launch.width, launch.height, kw, kh) = {}

\* C10's case: a launch of more than one block and more than one row, all of
\* whose threads are done, some of them outside the extents, and every output
\* offset written
C10_Witness ==
    /\ AllDone
    /\ launch.width > BlockDim /\ launch.height > 1
    /\ \E t \in DOMAIN tpc : t[1] >= launch.width /\ t[2] > 0
    /\ \A o \in 0 .. launch.width * launch.height - 1 : WritesTo(o) # {}

(***************************************************************************)
(* Claims about the weights a launch reads, checked under Spec.            *)
(***************************************************************************)
\* the launch of the current conv2D call has run
Launched == pc = "copy_output" /\ "kernel_conv2D" \notin failedOps

\* the offsets into the kernel buffer that the threads of the current call read
WeightOffsets ==
    UNION {{c[2] : c \in {r \in ThreadReads(t[1], t[2], width, height,
                                            kernelWidth, kernelHeight) :
                              r[1] = "kernel"}} :
               t \in LaunchedThreads(width, height)}

\* C11: for every kernel with kernelWidth >= 1 and kernelHeight >= 1, square
\* or not, of odd or even extents, every weight offset
\* (i + kx) + (j + ky) * kernelHeight that kernel_conv2D reads lies in
\* [0, kernelWidth * kernelHeight), inside the kernel buffer conv2D allocated
\* and copied.
C11_WeightOffsetsInBuffer ==
    Launched =>
        \A o \in WeightOffsets :
            /\ o \in 0 .. kernelWidth * kernelHeight - 1
            /\ o \in DOMAIN devHeap[d_kernel].words

\* C11 for the kernels of odd, equal extents, those of src/test/main.cu among
\* them: their weight offsets are exactly the offsets of the buffer.
C11_SquareOddWeightOffsets ==
    (Launched /\ kernelWidth = kernelHeight /\ kernelWidth % 2 = 1) =>
        WeightOffsets = DOMAIN devHeap[d_kernel].words

(***************************************************************************)
(* Matrix::set and Matrix::get on grids constructed from their extents     *)
(* (SpecMatrixAccess).  The caller passes in-extent pairs only: i < rows   *)
(* and j < cols.                                                           *)
(***************************************************************************)
\* the in-extent pairs (i, j) of a grid of the given extents
Pairs(rows, cols) == (0 .. rows - 1) \X (0 .. cols - 1)

\* inline void set(const T& value, unsigned int i, unsigned int j):
\* data[i + j * cols] = value; past the buffer the store corrupts the heap.
\* The value set is MaxVal, which no constructed cell holds.
Set(s) ==
    /\ HeapOk /\ grids[s].live /\ IsLiveBuf(grids[s].data)
    /\ \E ij \in Pairs(grids[s].rows, grids[s].cols), v \in {MaxVal} :
         LET o == Offset(grids[s].cols, ij[1], ij[2])
             inside == o \in DOMAIN heap[grids[s].data].cells
         IN  /\ heap' = IF inside
                        THEN [heap EXCEPT ![grids[s].data].cells[o] = v]
                        ELSE heap
             /\ overruns' = IF inside THEN overruns ELSE overruns + 1
    /\ lits' = [lits EXCEPT ![s] = NoLit]
    /\ UNCHANGED <<grids, wildFrees, convVars, thrVars>>

MatAccessNext ==
    \E s \in Slots :
        \/ Construct(s)
        \/ Set(s)
        \/ Destroy(s)

SpecMatrixAccess == Init /\ [][MatAccessNext]_vars

(***************************************************************************)
(* Claims about set and get, checked under SpecMatrixAccess.               *)
(***************************************************************************)
\* C12: for every grid with rows >= 1 and cols >= 1, rows # cols included, and
\* every pair with i < rows and j < cols, the offset i + j * cols that get and
\* set use is below rows * cols, and two different in-extent pairs have
\* different offsets; so no set or get leaves the buffer.
C12_OffsetsInBufferAndDistinct ==
    /\ overruns = 0
    /\ \A s \in LiveGrids :
          (grids[s].rows >= 1 /\ grids[s].cols >= 1) =>
              \A p \in Pairs(grids[s].rows, grids[s].cols) :
                  /\ Offset(grids[s].cols, p[1], p[2]) < grids[s].rows * grids[s].cols
                  /\ \A q \in Pairs(grids[s].rows, grids[s].cols) :
                        Offset(grids[s].cols, p[1], p[2]) = Offset(grids[s].cols, q[1], q[2])
                            => p = q

\* C12 for the grids with rows = cols or cols = 1: there the offsets are the
\* buffer's, each the offset of one pair.
C12_SquareOffsets ==
    \A s \in LiveGrids :
        (grids[s].rows >= 1 /\ (grids[s].rows = grids[s].cols \/ grids[s].cols = 1)) =>
            \A p \in Pairs(grids[s].rows, grids[s].cols) :
                /\ Offset(grids[s].cols, p[1], p[2]) < grids[s].rows * grids[s].cols
                /\ \A q \in Pairs(grids[s].rows, grids[s].cols) :
                      Offset(grids[s].cols, p[1], p[2]) = Offset(grids[s].cols, q[1], q[2])
                          => p = q

=============================================================================
